---- MODULE Spec2Model ----
(***************************************************************************)
(* Model of the resumable name-resolution pipeline of src/Main.py:         *)
(* open_linkedin_login_and_search (the session controller),                *)
(* search_and_handle_profiles (the candidate resolver) and                 *)
(* save_data_incrementally (the incremental persistor).                    *)
(*                                                                         *)
(* The page driver (Playwright) and the file system are the environment:   *)
(* every call into them either returns one of a small set of values or     *)
(* raises.  Indices are 0-based as in the Python code; sequences are       *)
(* 1-based, so names[index + 1] is Python's names[index].                  *)
(***************************************************************************)
EXTENDS Integers, Sequences, FiniteSets, TLC

VARIABLES
    alumni_directory,      \* what get_recent_csv and get_names_from_csv find (Main.py:379-381)
    names,                 \* the input list handed to open_linkedin_login_and_search
    last_processed_index,  \* Main.py:343
    retry_count,           \* Main.py:345
    pc,                    \* position of the controller / resolver
    browser,               \* "none" | "open" | "crashed" | "closed": the Playwright browser
    login_result,          \* "none" | "home" | "verification": how linkedin_login returned
    index,                 \* loop variable of Main.py:357
    attempt,               \* Main.py:243
    matched_profiles,      \* Main.py:244
    extracted_profiles,    \* Main.py:236
    extracted_education,   \* Main.py:237
    extracted_experiences, \* Main.py:238
    extracted_skills,      \* Main.py:239
    files,                 \* the four CSV destinations: NoFile or a sequence of lines
    sessions,              \* history: number of browsers launched in this run
    searches,              \* history: searches issued so far in the running while loop
    outcome,               \* history: how the while loop of the current candidate was left
    owner,                 \* history: per destination, the candidate index of each data row
    appended               \* history: <<index, kind>> of every save call that has returned

vars == <<alumni_directory, names, last_processed_index, retry_count, pc, browser, login_result, index,
          attempt, matched_profiles, extracted_profiles, extracted_education,
          extracted_experiences, extracted_skills, files, sessions, searches, outcome,
          owner, appended>>

(***************************************************************************)
(* Bounds of the model.                                                    *)
(***************************************************************************)
MaxNames == 2      \* longest input list
MaxSearches == 3   \* most searches followed for one call of the resolver

(***************************************************************************)
(* Program constants.                                                      *)
(***************************************************************************)
max_retries == 3       \* Main.py:344
max_attempts == 2      \* Main.py:246  while attempt < 2
match_threshold == 90  \* Main.py:267  match_score >= 90

NoFile == "NoFile"     \* os.path.isfile(file_path) is False
NoCsv == "NoCsv"       \* the alumni directory holds no .csv file
NoNamesColumn == "NoNamesColumn"  \* the newest .csv has no 'names' column
NoName == "NoName"     \* container.query_selector(...) returned None
NA == "N/A"

Kinds == <<"profiles", "education", "experiences", "skills">>
KindSet == {Kinds[i] : i \in 1..Len(Kinds)}

(***************************************************************************)
(* Names.  InputNames are the rows of the 'names' column; EntryNames are   *)
(* the display names the directory shows.                                  *)
(***************************************************************************)
InputNames == {"Jane Doe"}
EntryNames == {"JANE DOE", "Maria Santos"}

\* str.lower()
lower(s) ==
    CASE s = "Jane Doe" -> "jane doe"
      [] s = "JANE DOE" -> "jane doe"
      [] s = "Maria Santos" -> "maria santos"
      [] OTHER -> s

\* fuzz.ratio on lower-cased names: int(round(100 * SequenceMatcher.ratio())).
\* The values for unequal names are those the library returns for these strings.
fuzz_ratio(a, b) ==
    IF a = b THEN 100
    ELSE IF {a, b} = {"jane doe", "maria santos"} THEN 30
    ELSE 0

\* Main.py:264-267 and Main.py:278
is_match(a, b) == fuzz_ratio(lower(a), lower(b)) >= match_threshold

(***************************************************************************)
(* Search results and profile pages: the values the page driver returns.   *)
(***************************************************************************)
\* one div[data-chameleon-result-urn]: the text of its name element, or NoName when
\* it has none
Entries == EntryNames \cup {NoName}

\* page.query_selector_all("div[data-chameleon-result-urn]"): no container; containers
\* none of which matches "Jane Doe"; one match; a match behind a non-match; two matches
ResultLists ==
    { << >>,
      << NoName >>,
      << "Maria Santos" >>,
      << "JANE DOE" >>,
      << "Maria Santos", "JANE DOE" >>,
      << "JANE DOE", "JANE DOE" >> }

\* what a loaded profile page offers to extract_profile_data
PageShapes == {"full", "broken"}

BasicKeys == {"name", "headline", "location"}

\* extract_profile_data: the dict it returns for a page of the given shape whose h1
\* shows the display name h1.  A "full" page has every element and one entry in each
\* section.  A "broken" page raises inside the first try block after the name was
\* read, so the headline and location keys are never set.
extract_profile_data(shape, h1) ==
    CASE shape = "full" ->
            [keys |-> BasicKeys, name |-> h1, headline |-> "Engineer",
             location |-> "Manila",
             education |-> << [school |-> "ISU", duration |-> "2019 - 2023"] >>,
             experiences |-> << [title |-> "Developer", company |-> "Acme",
                                 duration |-> "2 yrs", location |-> NA] >>,
             skills |-> << "Python" >>]
      [] OTHER ->
            [keys |-> {"name"}, name |-> h1, headline |-> NA, location |-> NA,
             education |-> << >>, experiences |-> << >>, skills |-> << >>]

\* Main.py:321-326: the record appended when no profile matched after 2 attempts
sentinel_profile_unnamed(name) ==
    [name |-> NA, headline |-> NA, location |-> NA, duplicate_count |-> 0]

sentinel_profile(name) ==
    [name |-> name, headline |-> NA, location |-> NA, duplicate_count |-> 0]

(***************************************************************************)
(* save_data_incrementally (Main.py:201-225).                              *)
(***************************************************************************)
\* data[0].keys(): the keys of a record in insertion order
keys(rec) ==
    CASE DOMAIN rec = {"name", "headline", "location", "duplicate_count"} ->
            <<"name", "headline", "location", "duplicate_count">>
      [] DOMAIN rec = {"name", "school", "duration"} ->
            <<"name", "school", "duration">>
      [] DOMAIN rec = {"name", "title", "company", "duration", "location"} ->
            <<"name", "title", "company", "duration", "location">>
      [] DOMAIN rec = {"name", "skill"} ->
            <<"name", "skill">>

\* str() of the integer duplicate_count, as the csv writer formats it
int_str(n) ==
    CASE n = 0 -> "0" [] n = 1 -> "1" [] n = 2 -> "2" [] n = 3 -> "3" [] OTHER -> "many"

\* one line written by csv.DictWriter for a record: the values in fieldnames order
dict_row(rec, fieldnames) ==
    [i \in 1..Len(fieldnames) |->
        IF fieldnames[i] = "duplicate_count" THEN int_str(rec[fieldnames[i]])
        ELSE rec[fieldnames[i]]]

\* os.path.isfile(file_path)
isfile_never(file) == FALSE
isfile(file) == file # NoFile

\* open(file_path, mode='a'): what the file holds when the writer starts; a missing
\* file is created empty
open_truncate(file) == << >>
open_append(file) == IF file = NoFile THEN << >> ELSE file

\* the content of the destination after the call returns
save_data_incrementally(data, file) ==
    IF data = << >> THEN file
    ELSE LET file_exists == isfile(file)
             fieldnames == keys(data[1])
             old == open_append(file)
             header == IF ~file_exists THEN << fieldnames >> ELSE << >>
         IN  old \o header \o [i \in 1..Len(data) |-> dict_row(data[i], fieldnames)]

\* a header line starts with the field name "name"; no data row does
IsHeader(line) == line[1] = "name"

\* the data rows of a destination
Rows(file) == IF file = NoFile THEN << >> ELSE SelectSeq(file, LAMBDA l : ~IsHeader(l))

(***************************************************************************)
(* Initial state: the script starts (Main.py:376-378).  The alumni         *)
(* directory holds no CSV file, a newest CSV file without a 'names'        *)
(* column, or one whose 'names' column has zero or more rows; the output   *)
(* directory holds no destination file yet.  The locals of                 *)
(* open_linkedin_login_and_search have the values of Main.py:343-345.      *)
(***************************************************************************)
NameLists == UNION { [1..n -> InputNames] : n \in 0..MaxNames }

Init ==
    /\ alumni_directory \in [newest : {NoCsv, NoNamesColumn}, rows : {<< >>}]
                             \cup [newest : {"csv"}, rows : NameLists]
    /\ names = << >>
    /\ last_processed_index = 0
    /\ retry_count = 0
    /\ pc = "main"
    /\ browser = "none"
    /\ login_result = "none"
    /\ index = 0
    /\ attempt = 0
    /\ matched_profiles = << >>
    /\ extracted_profiles = << >>
    /\ extracted_education = << >>
    /\ extracted_experiences = << >>
    /\ extracted_skills = << >>
    /\ files = [k \in KindSet |-> NoFile]
    /\ sessions = 0
    /\ searches = 0
    /\ outcome = "none"
    /\ owner = [k \in KindSet |-> << >>]
    /\ appended = {}

\* the locals of search_and_handle_profiles are gone once it is left
ResolverLocalsCleared ==
    /\ attempt' = 0
    /\ matched_profiles' = << >>
    /\ extracted_profiles' = << >>
    /\ extracted_education' = << >>
    /\ extracted_experiences' = << >>
    /\ extracted_skills' = << >>
    /\ searches' = 0
    /\ outcome' = "none"

\* attempt and matched_profiles are last read at Main.py:319; what they held is
\* forgotten once the saves have begun
LoopLocalsForgotten ==
    /\ attempt' = 0
    /\ matched_profiles' = << >>
    /\ searches' = 0
    /\ outcome' = "none"

ResolverLocalsUnchanged ==
    UNCHANGED <<attempt, matched_profiles, extracted_profiles, extracted_education,
                extracted_experiences, extracted_skills, searches, outcome>>

(***************************************************************************)
(* The script body (Main.py:376-384).                                      *)
(***************************************************************************)
\* Main.py:380-383: get_recent_csv raises FileNotFoundError when there is no CSV file
\* (Main.py:33-34) and get_names_from_csv raises ValueError without a 'names' column
\* (Main.py:50-51); nothing catches either, so the script ends.  Otherwise the list
\* of the column's rows, empty or not, is handed to open_linkedin_login_and_search.
Main ==
    /\ pc = "main"
    /\ IF alumni_directory.newest \in {NoCsv, NoNamesColumn}
       THEN /\ pc' = "aborted"
            /\ UNCHANGED names
       ELSE /\ names' = alumni_directory.rows
            /\ pc' = "while"
    /\ UNCHANGED <<alumni_directory, last_processed_index, retry_count, browser,
                   login_result, index, files, sessions, owner, appended>>
    /\ ResolverLocalsUnchanged

(***************************************************************************)
(* The session controller: open_linkedin_login_and_search.                 *)
(***************************************************************************)
\* Main.py:370-372: an exception reached the outer except.  Leaving the
\* "with sync_playwright()" block stops Playwright, which ends the browser.
SessionFailsRestart ==
    /\ retry_count' = retry_count + 1
    /\ last_processed_index' = 0
    /\ browser' = "none"
    /\ login_result' = "none"
    /\ pc' = "while"
    /\ ResolverLocalsCleared
    /\ UNCHANGED <<alumni_directory, names, index, files, sessions, owner, appended>>

SessionFailsKeepingBrowser ==
    /\ retry_count' = retry_count + 1
    /\ login_result' = "none"
    /\ pc' = "while"
    /\ ResolverLocalsCleared
    /\ UNCHANGED <<alumni_directory, names, last_processed_index, browser, index, files,
                   sessions, owner, appended>>

SessionFails ==
    /\ retry_count' = retry_count + 1
    /\ browser' = "none"
    /\ login_result' = "none"
    /\ pc' = "while"
    /\ ResolverLocalsCleared
    /\ UNCHANGED <<alumni_directory, names, last_processed_index, index, files, sessions, owner, appended>>

\* Main.py:347: while retry_count < max_retries
retry_allowed_inclusive == retry_count <= max_retries
retry_allowed == retry_count < max_retries

\* Main.py:349-352: a new browser is launched.  (A launch that raises leaves the
\* controller where a login that raises leaves it, so it is not told apart here.)
Launch ==
    /\ pc = "while"
    /\ retry_allowed
    /\ browser' = "open"
    /\ sessions' = sessions + 1
    /\ pc' = "login"
    /\ UNCHANGED <<alumni_directory, names, last_processed_index, retry_count, login_result, index,
                   files, owner, appended>>
    /\ ResolverLocalsUnchanged

\* Main.py:374: the while loop ends without a return
MaxRetriesExceeded ==
    /\ pc = "while"
    /\ ~retry_allowed
    /\ pc' = "ended"
    /\ UNCHANGED <<alumni_directory, names, last_processed_index, retry_count, browser, login_result, index,
                   files, sessions, owner, appended>>
    /\ ResolverLocalsUnchanged

\* Main.py:354 and 53-85: linkedin_login reaches the homepage, returns early on the
\* verification prompt, or raises.  Main.py:357: the for loop then starts at
\* last_processed_index.
LoginRestartingRange ==
    /\ pc = "login"
    /\ \/ /\ \E r \in {"home", "verification"} : login_result' = r
          /\ index' = 0
          /\ pc' = "for"
          /\ UNCHANGED <<alumni_directory, names, last_processed_index, retry_count, browser, files,
                         sessions, owner, appended>>
          /\ ResolverLocalsUnchanged
       \/ SessionFails

Login ==
    /\ pc = "login"
    /\ \/ /\ \E r \in {"home", "verification"} : login_result' = r
          /\ index' = last_processed_index
          /\ pc' = "for"
          /\ UNCHANGED <<alumni_directory, names, last_processed_index, retry_count, browser, files,
                         sessions, owner, appended>>
          /\ ResolverLocalsUnchanged
       \/ SessionFails

\* Main.py:357-361: the next index is taken and search_and_handle_profiles is
\* entered with [name] (Main.py:236-244)
CallResolverAdvancingEarly ==
    /\ pc = "for"
    /\ index < Len(names)
    /\ pc' = "attempt"
    /\ last_processed_index' = index + 1
    /\ appended' = {e \in appended : e[1] # index}
    /\ ResolverLocalsCleared
    /\ UNCHANGED <<alumni_directory, names, retry_count, browser, login_result, index,
                   files, sessions, owner>>

CallResolver ==
    /\ pc = "for"
    /\ index < Len(names)
    /\ pc' = "attempt"
    /\ appended' = {e \in appended : e[1] # index}
    /\ ResolverLocalsCleared
    /\ UNCHANGED <<alumni_directory, names, last_processed_index, retry_count, browser, login_result, index,
                   files, sessions, owner>>

\* Main.py:367-369: the range is exhausted; the browser is closed and the function returns
Finish ==
    /\ pc = "for"
    /\ ~(index < Len(names))
    /\ browser' = "closed"
    /\ pc' = "returned"
    /\ UNCHANGED <<alumni_directory, names, last_processed_index, retry_count, login_result, index,
                   files, sessions, owner, appended>>
    /\ ResolverLocalsUnchanged

\* Main.py:362: search_and_handle_profiles returned
AdvanceSkipping ==
    /\ pc = "advance"
    /\ last_processed_index' = index + 2
    /\ index' = index + 1
    /\ pc' = "for"
    /\ ResolverLocalsCleared
    /\ UNCHANGED <<alumni_directory, names, retry_count, browser, login_result, files, sessions, owner,
                   appended>>

Advance ==
    /\ pc = "advance"
    /\ last_processed_index' = index + 1
    /\ index' = index + 1
    /\ pc' = "for"
    /\ ResolverLocalsCleared
    /\ UNCHANGED <<alumni_directory, names, retry_count, browser, login_result, files, sessions, owner,
                   appended>>

(***************************************************************************)
(* The candidate resolver: one iteration of "while attempt < 2"            *)
(* (Main.py:246-317) and, when the loop is left, the sentinel step         *)
(* (Main.py:319-326).                                                      *)
(***************************************************************************)
\* where the page driver raises during one attempt, if anywhere:
\*   "search" in the search calls (Main.py:249-253), "score" while a result
\*   container is read (259-261), "link" in first_match.query_selector (285),
\*   "open" in the click or the wait that follows it (287-288).
\* "nolink" is no exception: first_match.query_selector("a[href]") returns None.
\* "crash" is the page or the browser going away (a navigation crash): the search
\* call raises, and so does every later page call of the session.
Faults == {"none", "search", "score", "link", "nolink", "open", "crash"}

\* Main.py:258-271: the entries among the first n containers of this search that have a
\* name element and score >= 90 against the query, in result order.  The element
\* handle kept beside the name is not modelled: what a later query_selector or click
\* on it does is the environment's choice (Faults).
scored(query, cs, n) ==
    LET hit(j) == cs[j] # NoName /\ is_match(query, cs[j])
        idx == SelectSeq([j \in 1..n |-> j], hit)
    IN  [k \in 1..Len(idx) |-> [name |-> cs[idx[k]]]]

\* Main.py:277-281: the number of pairs (existing profile, matched entry) whose
\* names score >= 90
duplicate_count(existing, matched) ==
    Cardinality({ p \in (1..Len(existing)) \X (1..Len(matched)) :
                    is_match(existing[p[1]].name, matched[p[2]].name) })

\* Main.py:319: if attempt == 2 and not matched_profiles
sentinel_due(att, matched) == att = 2 /\ matched = << >>

\* the rest of the function once the while loop is left with the given locals
LeaveLoop(att, matched, profiles, how) ==
    /\ outcome' = how
    /\ searches' = 0
    /\ attempt' = att
    /\ matched_profiles' = matched
    /\ extracted_profiles' =
          IF sentinel_due(att, matched)
          THEN Append(profiles, sentinel_profile(names[index + 1]))
          ELSE profiles
    /\ pc' = "save_profiles"

\* the loop condition holds again, or the loop is left
NextIteration(att, matched) ==
    IF att < max_attempts
    THEN /\ attempt' = att
         /\ matched_profiles' = matched
         /\ pc' = "attempt"
         /\ searches' = searches + 1
         /\ UNCHANGED <<extracted_profiles, outcome>>
    ELSE LeaveLoop(att, matched, extracted_profiles, "exhausted")

\* Main.py:315-317: the except clause of the attempt
AttemptRaises(matched) ==
    /\ NextIteration(attempt + 1, matched)
    /\ UNCHANGED <<extracted_education, extracted_experiences, extracted_skills>>

Attempt ==
    /\ pc = "attempt"
    /\ attempt < max_attempts
    /\ searches < MaxSearches
    /\ UNCHANGED <<alumni_directory, names, last_processed_index, retry_count, login_result, index,
                   files, sessions, owner, appended>>
    /\ \E fault \in Faults, cs \in ResultLists, shape \in PageShapes :
       \E at \in IF fault = "score" THEN 1..Len(cs) ELSE {1} :
          LET query == names[index + 1]
              upto == IF fault = "score" THEN at - 1 ELSE Len(cs)
              matched == matched_profiles \o scored(query, cs, upto)
          IN
          /\ browser = "crashed" => fault = "crash"
          /\ browser' = IF fault = "crash" THEN "crashed" ELSE browser
          /\ IF fault \in {"search", "crash"} THEN
                /\ cs = << >> /\ shape = "full"
                /\ AttemptRaises(matched_profiles)
             ELSE IF cs = << >> THEN
                \* Main.py:254-256: no containers: break
                /\ fault = "none" /\ shape = "full"
                /\ LeaveLoop(attempt, matched_profiles, extracted_profiles, "empty")
                /\ UNCHANGED <<extracted_education, extracted_experiences,
                               extracted_skills>>
             ELSE IF fault = "score" THEN
                /\ shape = "full"
                /\ AttemptRaises(matched)
             ELSE IF matched = << >> THEN
                \* Main.py:312-314
                /\ fault = "none" /\ shape = "full"
                /\ NextIteration(attempt + 1, matched)
                /\ UNCHANGED <<extracted_education, extracted_experiences,
                               extracted_skills>>
             ELSE
                \* Main.py:273-311
                LET dups == duplicate_count(extracted_profiles, matched)
                    profile_data == extract_profile_data(shape, matched[1].name)
                IN
                IF fault = "link" THEN
                    /\ shape = "full"
                    /\ AttemptRaises(matched)
                ELSE IF fault = "nolink" THEN
                    \* Main.py:286: no profile link: neither break nor attempt += 1
                    /\ shape = "full"
                    /\ NextIteration(attempt, matched)
                    /\ UNCHANGED <<extracted_education, extracted_experiences,
                                   extracted_skills>>
                ELSE IF fault = "open" THEN
                    /\ shape = "full"
                    /\ AttemptRaises(matched)
                ELSE IF ~(BasicKeys \subseteq profile_data.keys) THEN
                    \* Main.py:296-301 raises KeyError
                    /\ AttemptRaises(matched)
                ELSE
                    /\ extracted_education' = extracted_education \o
                          [i \in 1..Len(profile_data.education) |->
                              [name |-> profile_data.name,
                               school |-> profile_data.education[i].school,
                               duration |-> profile_data.education[i].duration]]
                    /\ extracted_experiences' = extracted_experiences \o
                          [i \in 1..Len(profile_data.experiences) |->
                              [name |-> profile_data.name,
                               title |-> profile_data.experiences[i].title,
                               company |-> profile_data.experiences[i].company,
                               duration |-> profile_data.experiences[i].duration,
                               location |-> profile_data.experiences[i].location]]
                    /\ extracted_skills' = extracted_skills \o
                          [i \in 1..Len(profile_data.skills) |->
                              [name |-> profile_data.name,
                               skill |-> profile_data.skills[i]]]
                    /\ LeaveLoop(attempt, matched,
                                 Append(extracted_profiles,
                                        [name |-> profile_data.name,
                                         headline |-> profile_data.headline,
                                         location |-> profile_data.location,
                                         duplicate_count |-> dups]),
                                 "resolved")

(***************************************************************************)
(* Main.py:328-332: the four saves, in order.  open() may raise; nothing   *)
(* catches that inside search_and_handle_profiles, so it reaches the       *)
(* controller (Main.py:363-365, 370).                                      *)
(***************************************************************************)
SavePc(kind) ==
    CASE kind = "profiles" -> "save_profiles"
      [] kind = "education" -> "save_education"
      [] kind = "experiences" -> "save_experiences"
      [] kind = "skills" -> "save_skills"

AfterSave(kind) ==
    CASE kind = "profiles" -> "save_education"
      [] kind = "education" -> "save_experiences"
      [] kind = "experiences" -> "save_skills"
      [] kind = "skills" -> "advance"

DataOf(kind) ==
    CASE kind = "profiles" -> extracted_profiles
      [] kind = "education" -> extracted_education
      [] kind = "experiences" -> extracted_experiences
      [] kind = "skills" -> extracted_skills

Save(kind) ==
    /\ pc = SavePc(kind)
    /\ \/ /\ files' = [files EXCEPT ![kind] = save_data_incrementally(DataOf(kind), @)]
          /\ owner' = [owner EXCEPT ![kind] = @ \o [i \in 1..Len(DataOf(kind)) |-> index]]
          /\ appended' = appended \cup {<<index, kind>>}
          /\ pc' = AfterSave(kind)
          /\ UNCHANGED <<alumni_directory, names, last_processed_index, retry_count, browser, login_result,
                         index, sessions>>
          /\ LoopLocalsForgotten
          /\ UNCHANGED <<extracted_profiles, extracted_education, extracted_experiences,
                         extracted_skills>>
       \/ /\ DataOf(kind) # << >>
          /\ SessionFails

SaveProfiles == Save("profiles")
SaveEducation == Save("education")
SaveExperiences == Save("experiences")
SaveSkills == Save("skills")

Next ==
    \/ Main
    \/ Launch
    \/ MaxRetriesExceeded
    \/ Login
    \/ CallResolver
    \/ Finish
    \/ Attempt
    \/ SaveProfiles
    \/ SaveEducation
    \/ SaveExperiences
    \/ SaveSkills
    \/ Advance

Spec == Init /\ [][Next]_vars

(***************************************************************************)
(* Properties.                                                             *)
(***************************************************************************)
Count(seq, x) == Cardinality({ i \in 1..Len(seq) : seq[i] = x })

Indices == 0..(Len(names) - 1)

SavePcs == {"save_profiles", "save_education", "save_experiences", "save_skills"}
Processing == {"attempt", "advance"} \cup SavePcs
RunOver == pc \in {"returned", "ended"}

\* the record of Main.py:321-326 for the candidate being processed, written out
Unresolved ==
    [name |-> names[index + 1], headline |-> "N/A", location |-> "N/A",
     duplicate_count |-> 0]

\* C1: once open_linkedin_login_and_search has completed the full index range, the
\* profiles destination holds exactly one profile record per input index.
C1_OneProfilePerIndex ==
    pc = "returned" => \A i \in Indices : Count(owner["profiles"], i) = 1

\* C2: last_processed_index exceeds i only when all four save calls for index i have
\* returned; no state has last_processed_index > i with a save for i pending or failed.
C2_AppendsBeforeAdvance ==
    \A i \in Indices :
        last_processed_index > i => \A k \in KindSet : <<i, k>> \in appended

\* a save for index 1 failed after its profile row was written, the next session has
\* processed index 1 again and the index has advanced past it
C2_Witness ==
    /\ last_processed_index = 2
    /\ retry_count > 0
    /\ Count(owner["profiles"], 1) = 2

\* C3: when an exception escapes the processing of index k, the session ends with
\* last_processed_index = k unchanged; the next session starts its iteration at
\* last_processed_index; the index being processed is never below it, and
\* last_processed_index changes only by the advance after a completed candidate.
C3_ResumeAtFailedIndex ==
    [][ /\ (pc \in Processing /\ pc' = "while") =>
              (last_processed_index' = last_processed_index
               /\ last_processed_index' = index)
        /\ (pc = "login" /\ pc' = "for") => index' = last_processed_index'
        /\ pc' \in (Processing \ {"advance"}) => index' = last_processed_index'
        /\ pc # "advance" => last_processed_index' = last_processed_index
        /\ last_processed_index' >= last_processed_index ]_vars

\* index 1 is processed again in a second session after its profile row had been
\* written in the first: the exception of a later save escaped at index 1
C3_Witness ==
    /\ pc = "attempt"
    /\ index = 1
    /\ last_processed_index = 1
    /\ retry_count = 1
    /\ Count(owner["profiles"], 1) = 1

\* no destination gains a row for an index below last_processed_index
NoSecondRecord ==
    \A k \in KindSet : \A i \in Indices :
        i < last_processed_index => Count(owner'[k], i) = Count(owner[k], i)

\* C4 as stated: a restart never adds a record for an index below the resume point,
\* and every index from the resume point on is completed when the run is over.
C4_ResumeCompletesAll ==
    /\ [](RunOver => last_processed_index = Len(names))
    /\ [][NoSecondRecord]_vars

\* C4 amended: a restart never adds a record for an index below the resume point, and
\* every index from the resume point on has been processed when the run returns
\* normally (when the retry budget runs out first, the rest stays unprocessed).
C4_ResumeIdempotent ==
    /\ [](pc = "returned" => last_processed_index = Len(names))
    /\ [][NoSecondRecord]_vars

\* the run returned after a restart that resumed at index 1
C4_Witness ==
    /\ pc = "returned"
    /\ retry_count > 0
    /\ Len(names) = 2
    /\ Count(owner["profiles"], 0) = 1
    /\ Count(owner["profiles"], 1) = 2

\* C5: a search that returns zero entries ends the candidate without a second search
\* and with exactly one Unresolved record produced for it.
C5_EmptyResultGivesSentinel ==
    (pc = "save_profiles" /\ outcome = "empty") => extracted_profiles = << Unresolved >>

\* the data rows of the profiles destination written for earlier candidates by a
\* resolved profile (not the Unresolved record)
AcceptedEarlier ==
    LET rows == Rows(files["profiles"])
        idx == SelectSeq([i \in 1..Len(rows) |-> i],
                         LAMBDA i : /\ owner["profiles"][i] < index
                                    /\ rows[i] # <<names[owner["profiles"][i] + 1],
                                                   "N/A", "N/A", "0">>)
    IN  [j \in 1..Len(idx) |-> [name |-> rows[idx[j]][1]]]

ExpectedDuplicates ==
    Cardinality({ p \in (1..Len(AcceptedEarlier)) \X (1..Len(matched_profiles)) :
                    is_match(AcceptedEarlier[p[1]].name, matched_profiles[p[2]].name) })

\* C6: the duplicate_count of a resolved profile is the number of pairs (profile
\* accepted earlier in the run, entry matched for this candidate) whose names match.
C6_DuplicateCountCountsEarlier ==
    (pc = "save_profiles" /\ outcome = "resolved") =>
        extracted_profiles[Len(extracted_profiles)].duplicate_count = ExpectedDuplicates

\* C7: when the 2 attempts are used up and no entry scored >= 90, the one record
\* produced is the Unresolved record of the query name and there are no sub-records.
C7_ExhaustedGivesSentinel ==
    (pc = "save_profiles" /\ attempt = 2 /\ matched_profiles = << >>) =>
        /\ extracted_profiles = << Unresolved >>
        /\ extracted_education = << >>
        /\ extracted_experiences = << >>
        /\ extracted_skills = << >>

C7_Witness ==
    /\ pc = "save_profiles"
    /\ attempt = 2
    /\ matched_profiles = << >>
    /\ index = 1

\* C8: exceptions during attempts never abort the candidate, and when they use up the
\* attempt budget the candidate ends with the Unresolved record produced, also when
\* an entry had been matched before the exception.
C8_ExhaustedByExceptionGivesSentinel ==
    (pc = "save_profiles" /\ outcome = "exhausted") =>
        extracted_profiles = << Unresolved >>

\* C9: every destination the program created holds exactly one header line, its first.
C9_OneHeaderFirst ==
    \A k \in KindSet :
        files[k] # NoFile =>
            /\ Len(files[k]) >= 1
            /\ IsHeader(files[k][1])
            /\ Cardinality({ i \in 1..Len(files[k]) : IsHeader(files[k][i]) }) = 1

\* the profiles destination was appended to for two candidates and in two sessions
C9_Witness ==
    /\ retry_count > 0
    /\ Count(owner["profiles"], 0) = 1
    /\ Count(owner["profiles"], 1) = 2
    /\ Len(files["education"]) >= 3

\* what a destination holds is kept, in place, by every step
FilesOnlyGrow ==
    \A k \in KindSet :
        files[k] # NoFile =>
            /\ files'[k] # NoFile
            /\ Len(files'[k]) >= Len(files[k])
            /\ SubSeq(files'[k], 1, Len(files[k])) = files[k]

\* C10: a run launches at most 3 browsers; once the third session has failed the run
\* ends, and no step changes or removes what the destinations already hold.
C10_ThreeSessionsRecordsKept ==
    /\ [](sessions <= 3)
    /\ [](pc = "ended" => (retry_count = 3 /\ sessions = 3 /\ browser = "none"))
    /\ [][retry_count = 3 => pc' \in {"ended", "while"} ]_vars
    /\ [][FilesOnlyGrow]_vars

\* the third session failed after earlier sessions had persisted records
C10_Witness ==
    /\ pc = "ended"
    /\ sessions = 3
    /\ last_processed_index = 1
    /\ Len(Rows(files["profiles"])) >= 2

\* C11: in a session whose login ended in the verification prompt the controller does
\* not go on to resolve candidates: no step of such a session issues a search (every
\* step taken from inside the attempt loop does) and none writes to a destination.
C11_NoResolutionAfterVerification ==
    [][login_result = "verification" => (pc # "attempt" /\ files' = files)]_vars

\* C12: when the alumni directory holds no CSV file, or the newest CSV file has zero
\* name rows, the run aborts before a browser is launched and nothing is written.
C12_FatalConfigAbortsFirst ==
    (\/ alumni_directory.newest = NoCsv
     \/ (alumni_directory.newest = "csv" /\ alumni_directory.rows = << >>))
    => (/\ sessions = 0
        /\ \A k \in KindSet : files[k] = NoFile)

\* C13: the resolution of a candidate issues at most 2 searches, whatever the attempts
\* meet.  (searches counts the searches of the running resolution after which the
\* loop went on to another iteration.)
C13_AtMostTwoSearches == searches <= 2

\* C14: a navigation crash while a candidate is being resolved is recovered by a
\* session restart at that candidate's index: the session in which the browser
\* crashed persists nothing more and does not advance last_processed_index.
C14_CrashDoesNotAdvance ==
    [][browser = "crashed" =>
          (last_processed_index' = last_processed_index /\ files' = files)]_vars

\* C15: when a session failed between the saves of an index and the run then
\* completed, the profiles destination holds no second profile record for any index.
C15_OneProfileAfterInterruptedSave ==
    (pc = "returned" /\ retry_count > 0) =>
        \A i \in Indices : Count(owner["profiles"], i) <= 1

\* C16: an attempt that opens and extracts a profile works on the entries matched in
\* that same attempt only: none matched by an earlier attempt of the candidate is in
\* matched_profiles, whose first element is the one opened and whose elements are all
\* counted by the duplicate computation.
C16_OnlyThisAttemptsMatches ==
    [][(pc = "attempt" /\ pc' = "save_profiles" /\ outcome' = "resolved")
          => matched_profiles = << >>]_vars

\* what one returned call of save_data_incrementally for destination k must have done
SaveKeepsAndAppends(k) ==
    LET data == DataOf(k)
        old == IF files[k] = NoFile THEN << >> ELSE files[k]
        new == SubSeq(files'[k], Len(old) + 1, Len(files'[k]))
        rows == SelectSeq(new, LAMBDA l : ~IsHeader(l))
    IN  /\ \A j \in KindSet \ {k} : files'[j] = files[j]
        /\ IF data = << >>
           THEN files'[k] = files[k]
           ELSE /\ files'[k] # NoFile
                /\ Len(files'[k]) >= Len(old)
                /\ SubSeq(files'[k], 1, Len(old)) = old
                /\ files[k] # NoFile => new = rows
                /\ Len(rows) = Len(data)
                /\ \A i \in 1..Len(data) :
                      /\ rows[i][1] = data[i].name
                      /\ Len(rows[i]) = Cardinality(DOMAIN data[i])

\* C17: a call of save_data_incrementally that returns never changes what a
\* destination already holds: with records, the former content is an unchanged
\* prefix and the records follow it in their order; with no records the destination
\* is left exactly as it was, a missing one is not created, and the call cannot raise.
C17_SaveOnlyAppends ==
    /\ [][\A k \in KindSet :
             (pc = SavePc(k) /\ pc' = AfterSave(k)) => SaveKeepsAndAppends(k)]_vars
    /\ [][\A k \in KindSet :
             (pc = SavePc(k) /\ DataOf(k) = << >>) => pc' = AfterSave(k)]_vars

\* a second record was appended to the existing profiles destination, and the save of
\* an empty education list has returned without creating its destination
C17_Witness ==
    /\ pc = "save_experiences"
    /\ files["education"] = NoFile
    /\ Len(Rows(files["profiles"])) >= 2

C19_CountersBoundedMonotone ==
    /\ [](last_processed_index \in 0..Len(names))
    /\ [](retry_count \in 0..3)
    /\ [][/\ last_processed_index' \in {last_processed_index, last_processed_index + 1}
          /\ pc = "advance" => last_processed_index' = last_processed_index + 1
          /\ retry_count' >= retry_count]_vars

\* both counters have moved: one candidate was passed and three sessions failed
C19_Witness ==
    /\ retry_count = 3
    /\ last_processed_index = 1
    /\ Len(names) = 2

====
